---- MODULE Spec2Model ----
(***************************************************************************)
(* Contact import pipeline: HTTP ingress (router.post, createHandler),     *)
(* ImportService (uploadAndQueue, handleJsonImport), the resumable upload  *)
(* service on top of a tus client, the job queue, and the worker task      *)
(* ImportTaskProcessor.processImportJob.                                   *)
(*                                                                         *)
(* The storage, tus, queue and relational collaborators are the            *)
(* environment: each call either succeeds with its documented effect or    *)
(* fails, chosen nondeterministically.                                     *)
(***************************************************************************)
EXTENDS Integers, Sequences, FiniteSets, TLC

(***************************************************************************)
(* Bounds of the model.                                                    *)
(***************************************************************************)
\* attempts the queue collaborator gives one task (at-least-once execution)
MaxAttempts == 2
\* bytes of one chunk of the resumable protocol, in the model's byte unit
ChunkSize == 2
\* the last millisecond of the clock and the last value of the random suffix
MaxClock == 1
MaxSuffix == 1

(***************************************************************************)
(* Program constants.                                                      *)
(***************************************************************************)
MinNameLen == 1
MaxNameLen == 255
\* config.upload.retryDelays: the delays (ms) before the retries of a failing chunk
RetryDelays == <<0, 3000, 5000, 10000, 20000>>

\* the concurrently handled submissions: the first one carries any input, the
\* others re-submit the first one's input under their own source label (another
\* client's upload of the same content, or the retry after a failure)
Requests == {"r1", "r2"}
JobIds == 1..Cardinality(Requests)

(***************************************************************************)
(* Sample values.                                                          *)
(***************************************************************************)
Dbl(s) == s \o s
Name128 == Dbl(Dbl(Dbl(Dbl(Dbl(Dbl(Dbl("n")))))))
Name255 == Name128 \o Dbl(Dbl(Dbl(Dbl(Dbl(Dbl("n")))))) \o Dbl(Dbl(Dbl(Dbl(Dbl("n")))))
             \o Dbl(Dbl(Dbl(Dbl("n")))) \o Dbl(Dbl(Dbl("n"))) \o Dbl(Dbl("n")) \o Dbl("n") \o "n"
Name256 == Dbl(Name128)

Alice == [name |-> "Alice", email |-> "alice@example.com"]
Bob == [name |-> "Bob", email |-> "bob@example.com"]
Longest == [name |-> Name255, email |-> "bob@example.com"]
BadEmail == [name |-> "Jane", email |-> "not-an-email"]
NoEmail == [name |-> "Bob"]
NoName == [name |-> "", email |-> ""]
TooLong == [name |-> Name256, email |-> "alice@example.com"]

\* the source label each submission carries when it carries a valid one
First == "r1"
SourceOf(r) == IF r = First THEN "acme" ELSE "crm"
MaxSourceLen == 100
Source101 == Dbl(Dbl(Dbl(Dbl(Dbl(Dbl("s")))))) \o Dbl(Dbl(Dbl(Dbl(Dbl("s"))))) \o Dbl(Dbl("s")) \o "s"

\* z.email(): the sample addresses the zod email format accepts
IsEmail(e) == e \in {"alice@example.com", "bob@example.com"}

(***************************************************************************)
(* JSON values and texts.  A text is either the serialization of a JSON    *)
(* value or a byte string that JSON.parse rejects.                         *)
(***************************************************************************)
JArray(items) == [t |-> "array", items |-> items]
JObject(fields) == [t |-> "object", fields |-> fields]
JString == [t |-> "string"]

JSONstringify(value) == [text |-> "json", value |-> value]
Garbage == [text |-> "garbage"]
\* a body of zero bytes
ZeroBytes == [text |-> "empty"]
NoText == [text |-> "none"]

\* JSON.parse: the value, or a SyntaxError
JSONparse(content) ==
    IF content.text = "json"
    THEN [ok |-> TRUE, value |-> content.value]
    ELSE [ok |-> FALSE, error |-> "SyntaxError"]

\* Buffer length of a text, in the model's byte unit
ByteLen(content) ==
    IF content = ZeroBytes THEN 0
    ELSE IF content.text # "json" THEN 1
    ELSE IF content.value.t = "array" THEN 1 + 2 * Len(content.value.items)
    ELSE IF content.value.t = "object" /\ "data" \in DOMAIN content.value.fields
              /\ content.value.fields.data.t = "array"
         THEN 2 + 2 * Len(content.value.fields.data.items)
    ELSE 2

\* contact arrays a JSON body may carry after passing importRequestSchema
ValidData == {<<Alice, Longest>>}

\* artifacts an uploaded file may carry
Artifacts ==
    { Garbage,
      JSONstringify(JArray(<<>>)),
      JSONstringify(JArray(<<Alice, BadEmail>>)),
      JSONstringify(JArray(<<NoEmail>>)),
      JSONstringify(JArray(<<TooLong>>)),
      JSONstringify(JObject([source |-> "acme", data |-> JArray(<<Alice, Bob>>)])),
      JSONstringify(JObject([data |-> JString])),
      JSONstringify(JString),
      JSONstringify(JObject([contacts |-> JArray(<<>>)])) }

\* bodies a raw stream may carry
StreamBodies ==
    { Garbage,
      JSONstringify(JArray(<<Alice, Bob>>)),
      JSONstringify(JArray(<<NoName, Bob>>)) }

(***************************************************************************)
(* Worker-side schema (importedContactSchema, importedContactsArraySchema) *)
(***************************************************************************)
importedContactSchema(c) ==
    /\ "name" \in DOMAIN c
    /\ Len(c.name) >= MinNameLen
    /\ Len(c.name) <= MaxNameLen
    /\ "email" \in DOMAIN c
    /\ IsEmail(c.email)

\* an array schema without the minimum length
AnyLengthSchema(arr) == \A i \in 1..Len(arr) : importedContactSchema(arr[i])

\* an array schema that looks at the first element only
FirstElementSchema(arr) ==
    /\ Len(arr) >= 1
    /\ importedContactSchema(arr[1])

importedContactsArraySchema(arr) ==
    /\ Len(arr) >= 1
    /\ \A i \in 1..Len(arr) : importedContactSchema(arr[i])

\* importedContactsArraySchema.parse: the validated records, or a ZodError
SchemaParse(arr) ==
    IF importedContactsArraySchema(arr)
    THEN [ok |-> TRUE,
          value |-> [i \in 1..Len(arr) |-> [name |-> arr[i].name, email |-> arr[i].email]]]
    ELSE [ok |-> FALSE, error |-> "ZodError"]

\* a parseContent that falls back to an empty list when there is no data field
parseContentLenient(content) ==
    LET parsed == JSONparse(content) IN
    IF ~parsed.ok THEN parsed
    ELSE IF parsed.value.t = "array" THEN [ok |-> TRUE, value |-> parsed.value]
    ELSE IF parsed.value.t = "object"
         THEN [ok |-> TRUE,
               value |-> IF "data" \in DOMAIN parsed.value.fields
                         THEN parsed.value.fields.data ELSE JArray(<<>>)]
    ELSE [ok |-> FALSE, error |-> "InvalidJsonFormat"]

\* a parseContent that returns the envelope itself instead of its data field
parseContentWhole(content) ==
    LET parsed == JSONparse(content) IN
    IF ~parsed.ok THEN parsed
    ELSE IF parsed.value.t \in {"array", "object"} THEN [ok |-> TRUE, value |-> parsed.value]
    ELSE [ok |-> FALSE, error |-> "InvalidJsonFormat"]

\* ImportTaskProcessor.parseContent
parseContent(content) ==
    LET parsed == JSONparse(content) IN
    IF ~parsed.ok THEN parsed
    ELSE IF parsed.value.t = "array" THEN [ok |-> TRUE, value |-> parsed.value]
    ELSE IF parsed.value.t = "object" /\ "data" \in DOMAIN parsed.value.fields
         THEN [ok |-> TRUE, value |-> parsed.value.fields.data]
    ELSE [ok |-> FALSE, error |-> "InvalidJsonFormat"]

\* the storage key of a job's artifact: `import-${jobId}.json`
FileNameOf(jobId) == [prefix |-> "import-", jobId |-> jobId, ext |-> ".json"]
NoFile == FileNameOf(0)
FileNames == {FileNameOf(j) : j \in JobIds}

(***************************************************************************)
(* State.                                                                  *)
(***************************************************************************)
VARIABLES
    reqs,       \* per submission: position in router.post / ImportService and its result
    jobSeq,     \* number of job ids generated so far
    storage,    \* the imports bucket: key -> object
    uploads,    \* tus uploads by upload URL: protocol bookkeeping of the sessions
    tasks,      \* the queue collaborator's processImportJob tasks, in enqueue order
    contacts,   \* the contacts table, rows in insertion order
    logs,       \* helpers.logger / console output of the worker, as a set of entries
    stages,     \* per job id: the pipeline stage events of the current attempt
    proc        \* the worker process: signals received, pending runner.stop() calls, exit

vars == <<reqs, jobSeq, storage, uploads, tasks, contacts, logs, stages, proc>>

NoMeta == [jobId |-> 0, source |-> "", uploadType |-> ""]
NoObject == [body |-> NoText, metadata |-> NoMeta]
NoResponse == [status |-> 0, jobId |-> 0, error |-> "", issues |-> {}]
NoError == [name |-> "", code |-> "", origin |-> ""]
NoUpload == [fingerprint |-> NoText, objectName |-> NoFile, offset |-> 0, total |-> 0,
             body |-> NoText, metadata |-> NoMeta, stored |-> FALSE]

\* the worker after main() has started the runner and installed its signal handlers
ProcStart == [pc |-> "running", received |-> {}, stopping |-> {}, exitCode |-> -1]

IdleReq ==
    [pc |-> "idle", kind |-> "none", input |-> NoText, path |-> "none", useResumable |-> FALSE,
     source |-> "", content |-> NoText, metadata |-> NoMeta,
     jobId |-> 0, fileName |-> NoFile,
     url |-> 0, previous |-> -1, sent |-> 0, retries |-> 0, delay |-> 0,
     staged |-> FALSE, stagedAt |-> NoFile, thrown |-> NoError, response |-> NoResponse]

Init ==
    /\ reqs = [r \in Requests |-> IdleReq]
    /\ jobSeq = 0
    /\ storage = [k \in FileNames |-> NoObject]
    /\ uploads = [u \in JobIds |-> NoUpload]
    /\ tasks = <<>>
    /\ contacts = <<>>
    /\ logs = {}
    /\ proc = ProcStart
    /\ stages = [j \in JobIds |-> <<>>]

(***************************************************************************)
(* Ingress: router.post, createHandler and the import request schema.      *)
(***************************************************************************)
\* contactSchema of the ingress schema: the offending field paths of element i
ContactIssues(c, i) ==
    (IF "name" \in DOMAIN c /\ Len(c.name) >= MinNameLen /\ Len(c.name) <= MaxNameLen
     THEN {} ELSE {<<"data", i, "name">>})
    \cup
    (IF "email" \in DOMAIN c /\ IsEmail(c.email) THEN {} ELSE {<<"data", i, "email">>})

\* a safeParse that stops at the first offending field
firstIssueOnly(v) ==
    IF ~("source" \in DOMAIN v /\ Len(v.source) >= 1 /\ Len(v.source) <= MaxSourceLen)
    THEN {<<"source">>}
    ELSE IF "data" \notin DOMAIN v \/ Len(v.data) < 1 THEN {<<"data">>}
    ELSE LET bad == {i \in 1..Len(v.data) : ContactIssues(v.data[i], i) # {}} IN
         IF bad = {} THEN {}
         ELSE LET i == CHOOSE k \in bad : \A m \in bad : k <= m
                  f == IF <<"data", i, "name">> \in ContactIssues(v.data[i], i)
                       THEN "name" ELSE "email"
              IN {<<"data", i, f>>}

\* importRequestSchema.safeParse: the set of offending field paths (empty on success)
importRequestIssues(v) ==
    (IF "source" \in DOMAIN v /\ Len(v.source) >= 1 /\ Len(v.source) <= MaxSourceLen
     THEN {} ELSE {<<"source">>})
    \cup
    (IF "data" \notin DOMAIN v \/ Len(v.data) < 1 THEN {<<"data">>}
     ELSE UNION {ContactIssues(v.data[i], i) : i \in 1..Len(v.data)})

\* a validation that does not say which field is missing
validateUnnamed(fields, required) ==
    IF \A i \in 1..Len(required) : fields[required[i]] THEN ""
    ELSE "Missing required field"

\* validateRequiredFields: the message for the first required field that is falsy
validateRequiredFields(fields, required) ==
    LET missing == {i \in 1..Len(required) : ~fields[required[i]]} IN
    IF missing = {} THEN ""
    ELSE "Missing required field: "
            \o required[CHOOSE i \in missing : \A k \in missing : i <= k]

\* the JSON bodies a submission may carry
JsonBodies(r) ==
    {[parsed |-> FALSE]}
    \cup {[parsed |-> TRUE, value |-> [source |-> SourceOf(r), data |-> d, useResumable |-> b]] :
            d \in ValidData, b \in BOOLEAN}
    \cup {[parsed |-> TRUE, value |-> v] :
            v \in { [source |-> SourceOf(r), data |-> <<Alice>>],
                    [source |-> SourceOf(r), data |-> <<>>],
                    [source |-> "", data |-> <<Alice>>],
                    [source |-> SourceOf(r), data |-> <<Alice, BadEmail>>],
                    [source |-> Source101, data |-> <<NoEmail, TooLong>>],
                    [data |-> <<NoName>>] }}

\* the multipart forms and the stream requests a submission may carry
Uploads(r, kind) ==
    [present : {TRUE}, body : IF kind = "multipart" THEN Artifacts ELSE StreamBodies,
     readable : BOOLEAN,
     source : {SourceOf(r)}, useResumable : BOOLEAN]
    \cup [present : {FALSE}, body : {NoText}, readable : {TRUE},
          source : {"", SourceOf(r)}, useResumable : {FALSE}]
    \cup [present : {TRUE}, body : {Garbage}, readable : {TRUE},
          source : {""}, useResumable : {FALSE}]
    \cup (IF kind = "stream"
          THEN [present : {TRUE}, body : {ZeroBytes}, readable : {TRUE},
                source : {SourceOf(r)}, useResumable : {FALSE}]
          ELSE {})

\* router.post: the handler returned {error, status} or {response, status}
Answer(q, status, jobId, error, issues) ==
    [q EXCEPT !.pc = "responded",
              !.response = [status |-> status, jobId |-> jobId, error |-> error,
                            issues |-> issues]]

\* router.post: the handler threw; the catch block answers 500
AnswerThrown(q, name, code, origin) ==
    [Answer(q, 500, 0, "Import failed", {}) EXCEPT
        !.thrown = [name |-> name, code |-> code, origin |-> origin]]

\* ImportService.import up to the first storage call, for a normalized input
BeginImport(q, kind, source, content, useResumable, metadata, jobId) ==
    [q EXCEPT !.pc = IF useResumable THEN "tusInit" ELSE "direct",
              !.kind = kind,
              !.path = IF kind = "json" /\ useResumable THEN "handleJsonImport"
                       ELSE "uploadAndQueue",
              !.useResumable = useResumable,
              !.source = source,
              !.content = content,
              !.metadata = metadata,
              !.jobId = jobId,
              !.fileName = FileNameOf(jobId)]

\* the inputs of submission r: any input of its kind for the first submission, the
\* first one's input with r's own source label for the others
Relabel(input, r) ==
    IF "parsed" \in DOMAIN input
    THEN IF input.parsed /\ "source" \in DOMAIN input.value
         THEN [input EXCEPT !.value.source = IF @ = SourceOf(First) THEN SourceOf(r) ELSE @]
         ELSE input
    ELSE [input EXCEPT !.source = IF @ = SourceOf(First) THEN SourceOf(r) ELSE @]

InputsOf(r, kind, all) ==
    IF r = First THEN all
    ELSE IF reqs[First].kind = kind THEN {Relabel(reqs[First].input, r)}
    ELSE {}

\* createHandler("json")
SubmitJson(r) ==
    /\ reqs[r].pc = "idle"
    /\ \E body \in InputsOf(r, "json", JsonBodies(r)) :
        LET q == [reqs[r] EXCEPT !.kind = "json", !.input = body]
            issues == importRequestIssues(body.value)
            data == body.value
            useResumable == IF "useResumable" \in DOMAIN data THEN data.useResumable ELSE FALSE
        IN
        IF ~body.parsed
        THEN /\ reqs' = [reqs EXCEPT ![r] = AnswerThrown(q, "SyntaxError", "", "json")]
             /\ jobSeq' = jobSeq
        ELSE IF issues # {}
        THEN /\ reqs' = [reqs EXCEPT ![r] = Answer(q, 400, 0, "Invalid JSON format", issues)]
             /\ jobSeq' = jobSeq
        ELSE /\ reqs' = [reqs EXCEPT ![r] =
                    BeginImport(q, "json", data.source, JSONstringify(JArray(data.data)),
                                useResumable,
                                [jobId |-> jobSeq + 1, source |-> data.source, uploadType |-> ""],
                                jobSeq + 1)]
             /\ jobSeq' = jobSeq + 1
    /\ UNCHANGED <<proc, storage, uploads, tasks, contacts, logs, stages>>

\* a read failure that is passed on as the reader threw it
ReadErrorPlain(kind) == [name |-> "Error", code |-> ""]

\* fileToBuffer / streamToBuffer: what the catch block throws for a failed read
ReadError(kind) ==
    [name |-> "ImportError",
     code |-> IF kind = "multipart" THEN "FILE_READ_ERROR" ELSE "STREAM_READ_ERROR"]

\* a handler that stages the upload before it looks at the required fields
StageThenValidate(r, kind) ==
    /\ reqs[r].pc = "idle"
    /\ \E in \in InputsOf(r, kind, Uploads(r, kind)) :
        LET q == [reqs[r] EXCEPT !.kind = kind, !.input = in]
            error == IF kind = "multipart"
                     THEN validateRequiredFields([file |-> in.present, source |-> in.source # ""],
                                                 <<"file", "source">>)
                     ELSE validateRequiredFields([source |-> in.source # "", body |-> in.present],
                                                 <<"source", "body">>)
        IN /\ error # ""
           /\ reqs' = [reqs EXCEPT ![r] = Answer(q, 400, 0, error, {})]
           /\ storage' = [storage EXCEPT ![FileNameOf(jobSeq + 1)] =
                                [body |-> in.body, metadata |-> NoMeta]]
    /\ jobSeq' = jobSeq + 1
    /\ UNCHANGED <<proc, uploads, tasks, contacts, logs, stages>>

\* createHandler("multipart") and createHandler("stream")
SubmitUpload(r, kind) ==
    /\ reqs[r].pc = "idle"
    /\ \E in \in InputsOf(r, kind, Uploads(r, kind)) :
        LET q == [reqs[r] EXCEPT !.kind = kind, !.input = in]
            error == IF kind = "multipart"
                     THEN validateRequiredFields([file |-> in.present, source |-> in.source # ""],
                                                 <<"file", "source">>)
                     ELSE validateRequiredFields([source |-> in.source # "", body |-> in.present],
                                                 <<"source", "body">>)
        IN
        IF error # ""
        THEN /\ reqs' = [reqs EXCEPT ![r] =
                    Answer(q, 400, 0,
                           IF kind = "multipart" THEN error
                           ELSE "Missing required parameters for stream upload: " \o error, {})]
             /\ jobSeq' = jobSeq
        ELSE IF ~in.readable
        THEN /\ reqs' = [reqs EXCEPT ![r] =
                    AnswerThrown([q EXCEPT !.jobId = jobSeq + 1], ReadError(kind).name,
                                 ReadError(kind).code, "read")]
             /\ jobSeq' = jobSeq + 1
        ELSE /\ reqs' = [reqs EXCEPT ![r] =
                    BeginImport(q, kind, in.source, in.body, in.useResumable,
                                [jobId |-> jobSeq + 1, source |-> in.source,
                                 uploadType |-> IF kind = "multipart" THEN "file" ELSE "stream"],
                                jobSeq + 1)]
             /\ jobSeq' = jobSeq + 1
    /\ UNCHANGED <<proc, storage, uploads, tasks, contacts, logs, stages>>

(***************************************************************************)
(* Staging: the direct path and the resumable (tus) path.                  *)
(***************************************************************************)
Min(a, b) == IF a <= b THEN a ELSE b

Event(job, names) == [stages EXCEPT ![job] = @ \o names]

\* how a failure of the upload or of addJob leaves ImportService: uploadAndQueue
\* wraps it as ImportError UPLOAD_FAILED, handleJsonImport lets it pass as it is
ServiceError(q, origin) ==
    IF q.path = "uploadAndQueue"
    THEN AnswerThrown(q, "ImportError", "UPLOAD_FAILED", origin)
    ELSE AnswerThrown(q, "Error", "", origin)

\* storageRepository.uploadFile(fileName, data) succeeds
DirectUploadOk(r) ==
    /\ reqs[r].pc = "direct"
    /\ storage' = [storage EXCEPT ![reqs[r].fileName] =
                        [body |-> reqs[r].content, metadata |-> NoMeta]]
    /\ reqs' = [reqs EXCEPT ![r].pc = "staged", ![r].staged = TRUE,
                            ![r].stagedAt = reqs[r].fileName]
    /\ stages' = Event(reqs[r].jobId, <<"stage.begin", "stage.ok">>)
    /\ UNCHANGED <<proc, jobSeq, uploads, tasks, contacts, logs>>

\* a storage failure that is swallowed: the service goes on to the handoff
DirectUploadFailIgnored(r) ==
    /\ reqs[r].pc = "direct"
    /\ reqs' = [reqs EXCEPT ![r].pc = "staged"]
    /\ stages' = Event(reqs[r].jobId, <<"stage.begin">>)
    /\ UNCHANGED <<proc, jobSeq, storage, uploads, tasks, contacts, logs>>

\* storageRepository.uploadFile(fileName, data) throws
DirectUploadFail(r) ==
    /\ reqs[r].pc = "direct"
    /\ reqs' = [reqs EXCEPT ![r] = ServiceError(reqs[r], "storage")]
    /\ stages' = Event(reqs[r].jobId, <<"stage.begin">>)
    /\ UNCHANGED <<proc, jobSeq, storage, uploads, tasks, contacts, logs>>

\* the fingerprint of an upload: derived from the content, not from the target key
Fingerprint(file) == [size |-> ByteLen(file), content |-> file]

\* upload.findPreviousUploads(): the recorded sessions with this fingerprint, oldest first
RECURSIVE Ascending(_)
Ascending(ids) ==
    IF ids = {} THEN <<>>
    ELSE LET m == CHOOSE i \in ids : \A k \in ids : i <= k
         IN <<m>> \o Ascending(ids \ {m})

findPreviousUploads(file) ==
    Ascending({u \in JobIds : uploads[u].stored /\ uploads[u].fingerprint = Fingerprint(file)})

\* a start that never looks for a previous upload
startUploadAfresh(q) == [q EXCEPT !.pc = "tusSending"]

\* ResumableUploadService.startUpload: resume the first previous upload, if any, and start
startUpload(q) ==
    LET previousUploads == findPreviousUploads(q.content) IN
    IF Len(previousUploads) > 0
    THEN [q EXCEPT !.pc = "tusSending", !.url = previousUploads[1]]
    ELSE [q EXCEPT !.pc = "tusSending"]

\* the offset acknowledged so far in the oldest recorded session with this
\* fingerprint, -1 when there is none
PreviousOffset(file) ==
    LET previousUploads == findPreviousUploads(file) IN
    IF Len(previousUploads) > 0 THEN uploads[previousUploads[1]].offset ELSE -1

StartUpload(r) ==
    /\ reqs[r].pc = "tusInit"
    /\ reqs' = [reqs EXCEPT ![r] =
                    [startUpload(reqs[r]) EXCEPT !.previous = PreviousOffset(reqs[r].content)]]
    /\ stages' = Event(reqs[r].jobId, <<"stage.begin">>)
    /\ UNCHANGED <<proc, jobSeq, storage, uploads, tasks, contacts, logs>>

\* findPreviousUploads or upload.start throws: startUpload rejects, nobody awaits it,
\* and the promise uploadFile returned is never settled
StartUploadThrows(r) ==
    /\ reqs[r].pc = "tusInit"
    /\ reqs' = [reqs EXCEPT ![r].pc = "hung"]
    /\ stages' = Event(reqs[r].jobId, <<"stage.begin">>)
    /\ UNCHANGED <<proc, jobSeq, storage, uploads, tasks, contacts, logs>>

\* whether the tus client records the session of a new upload for later lookups:
\* the service hands no URL storage to tus.Upload, so this is whatever the
\* client's default storage does; a resumed session stays as it was recorded
Recorded(q) == IF q.url # 0 THEN {uploads[q.url].stored} ELSE BOOLEAN

\* the tus upload this submission is bound to: the resumed one, or a new one
\* created under this submission's own object name
BoundUpload(q) ==
    IF q.url # 0 THEN uploads[q.url]
    ELSE [fingerprint |-> Fingerprint(q.content), objectName |-> q.fileName,
          offset |-> 0, total |-> ByteLen(q.content), body |-> q.content,
          metadata |-> q.metadata, stored |-> TRUE]

\* one chunk is acknowledged; the last one completes the upload (onSuccess)
SendChunk(r) ==
    /\ reqs[r].pc = "tusSending"
    /\ LET q == reqs[r]
           id == IF q.url # 0 THEN q.url ELSE q.jobId
           u == BoundUpload(q)
           n == Min(ChunkSize, u.total - u.offset)
           complete == u.offset + n = u.total
       IN
       /\ \E recorded \in Recorded(q) :
            uploads' = [uploads EXCEPT ![id] =
                        [u EXCEPT !.offset = @ + n,
                                  !.stored = IF complete THEN FALSE ELSE recorded]]
       /\ storage' = IF complete
                     THEN [storage EXCEPT ![u.objectName] =
                                [body |-> u.body, metadata |-> u.metadata]]
                     ELSE storage
       /\ reqs' = [reqs EXCEPT ![r].url = id,
                               ![r].sent = @ + n,
                               ![r].retries = 0,
                               ![r].delay = 0,
                               ![r].pc = IF complete THEN "staged" ELSE @,
                               ![r].staged = complete,
                               ![r].stagedAt = IF complete THEN u.objectName ELSE @]
       /\ stages' = IF complete THEN Event(q.jobId, <<"stage.ok">>) ELSE stages
    /\ UNCHANGED <<proc, jobSeq, tasks, contacts, logs>>

\* a chunk fails with an error the tus client retries: it waits the next delay of
\* the retryDelays schedule and sends the chunk again
ChunkRetry(r) ==
    /\ reqs[r].pc = "tusSending"
    /\ reqs[r].retries < Len(RetryDelays)
    /\ reqs' = [reqs EXCEPT ![r].retries = @ + 1,
                            ![r].delay = RetryDelays[reqs[r].retries + 1]]
    /\ UNCHANGED <<proc, jobSeq, storage, uploads, tasks, contacts, logs, stages>>

\* an upload error handler that starts the upload again instead of rejecting
RestartOnError(r) ==
    /\ reqs[r].pc = "tusSending"
    /\ reqs[r].retries = Len(RetryDelays)
    /\ reqs' = [reqs EXCEPT ![r].pc = "tusInit", ![r].retries = 0, ![r].delay = 0]
    /\ UNCHANGED <<proc, jobSeq, storage, uploads, tasks, contacts, logs, stages>>

\* the chunk fails again after the last delay of the schedule: the tus client calls
\* onError, which rejects the promise of uploadFile
RetriesExhausted(r) ==
    /\ reqs[r].pc = "tusSending"
    /\ reqs[r].retries = Len(RetryDelays)
    /\ reqs' = [reqs EXCEPT ![r] = ServiceError(reqs[r], "tus")]
    /\ UNCHANGED <<proc, jobSeq, storage, uploads, tasks, contacts, logs, stages>>

\* the tus client gives up on a chunk at once (the error is one it does not
\* retry): onError rejects the promise of uploadFile
UploadError(r) ==
    /\ reqs[r].pc = "tusSending"
    /\ reqs' = [reqs EXCEPT ![r] = ServiceError(reqs[r], "tus")]
    /\ UNCHANGED <<proc, jobSeq, storage, uploads, tasks, contacts, logs, stages>>

(***************************************************************************)
(* Job handoff: addJob("processImportJob", {jobId, source, fileName}).     *)
(***************************************************************************)
NewTask(payload) ==
    [payload |-> payload, state |-> "queued", attempts |-> 0, wpc |-> "",
     content |-> NoText, rows |-> <<>>, error |-> "", report |-> "",
     consumed |-> FALSE, cleaned |-> FALSE, persisted |-> 0]

\* a handoff that calls addJob a second time
EnqueueTwice(r) ==
    /\ reqs[r].pc = "staged"
    /\ LET task == NewTask([jobId |-> reqs[r].jobId, source |-> reqs[r].source,
                            fileName |-> reqs[r].fileName])
       IN tasks' = tasks \o <<task, task>>
    /\ reqs' = [reqs EXCEPT ![r] = Answer(reqs[r], 200, reqs[r].jobId, "", {})]
    /\ stages' = Event(reqs[r].jobId, <<"enqueue.begin", "enqueue.ok">>)
    /\ UNCHANGED <<proc, jobSeq, storage, uploads, contacts, logs>>

\* a handoff that does not wait for the staging write
EnqueueBeforeStaged(r) ==
    /\ reqs[r].pc \in {"direct", "staged"}
    /\ tasks' = Append(tasks, NewTask([jobId |-> reqs[r].jobId, source |-> reqs[r].source,
                                       fileName |-> reqs[r].fileName]))
    /\ reqs' = [reqs EXCEPT ![r] = Answer(reqs[r], 200, reqs[r].jobId, "", {})]
    /\ stages' = Event(reqs[r].jobId, <<"enqueue.begin", "enqueue.ok">>)
    /\ UNCHANGED <<proc, jobSeq, storage, uploads, contacts, logs>>

\* addJob resolves; the service returns {jobId} and the route answers 200
EnqueueOk(r) ==
    /\ reqs[r].pc = "staged"
    /\ tasks' = Append(tasks, NewTask([jobId |-> reqs[r].jobId, source |-> reqs[r].source,
                                       fileName |-> reqs[r].fileName]))
    /\ reqs' = [reqs EXCEPT ![r] = Answer(reqs[r], 200, reqs[r].jobId, "", {})]
    /\ stages' = Event(reqs[r].jobId, <<"enqueue.begin", "enqueue.ok">>)
    /\ UNCHANGED <<proc, jobSeq, storage, uploads, contacts, logs>>

\* addJob throws
EnqueueFail(r) ==
    /\ reqs[r].pc = "staged"
    /\ reqs' = [reqs EXCEPT ![r] = ServiceError(reqs[r], "queue")]
    /\ stages' = Event(reqs[r].jobId, <<"enqueue.begin">>)
    /\ UNCHANGED <<proc, jobSeq, storage, uploads, tasks, contacts, logs>>

(***************************************************************************)
(* Worker: the queue collaborator runs processImportJob on a task, at      *)
(* least once, and re-runs an attempt that threw or whose worker died.     *)
(***************************************************************************)
IngressStages == {"stage.begin", "stage.ok", "enqueue.begin", "enqueue.ok"}
IsIngressStage(e) == e \in IngressStages

\* processImportJob: const fileName = providedFileName || `import-${jobId}.json`
TaskFileName(payload) ==
    IF payload.fileName # NoFile THEN payload.fileName ELSE FileNameOf(payload.jobId)

LogEntry(level, msg, payload) ==
    [level |-> level, msg |-> msg, jobId |-> payload.jobId,
     source |-> IF msg = "Processing import job" THEN payload.source ELSE ""]

\* what the queue collaborator does with an attempt that did not succeed
AfterFailure(t) == IF t.attempts < MaxAttempts THEN "queued" ELSE "dead"

\* the queue hands the task to processImportJob, which logs "Processing import job"
Dequeue(i) ==
    /\ tasks[i].state = "queued"
    /\ tasks' = [tasks EXCEPT ![i].state = "running", ![i].attempts = @ + 1,
                              ![i].wpc = "start", ![i].content = NoText,
                              ![i].rows = <<>>, ![i].error = "",
                              ![i].consumed = FALSE, ![i].cleaned = FALSE]
    /\ logs' = logs \cup {LogEntry("info", "Processing import job", tasks[i].payload)}
    /\ UNCHANGED <<proc, reqs, jobSeq, storage, uploads, contacts, stages>>

\* storageRepository.downloadFile(fileName) resolves with the object's text
DownloadOk(i) ==
    /\ tasks[i].state = "running" /\ tasks[i].wpc = "start"
    /\ storage[TaskFileName(tasks[i].payload)] # NoObject
    /\ tasks' = [tasks EXCEPT ![i].wpc = "downloaded", ![i].consumed = TRUE,
                              ![i].content = storage[TaskFileName(tasks[i].payload)].body]
    /\ stages' = Event(tasks[i].payload.jobId, <<"download.begin", "download.ok">>)
    /\ UNCHANGED <<proc, reqs, jobSeq, storage, uploads, contacts, logs>>

\* storageRepository.downloadFile(fileName) throws (no such object, or a storage error)
DownloadFail(i) ==
    /\ tasks[i].state = "running" /\ tasks[i].wpc = "start"
    /\ tasks' = [tasks EXCEPT ![i].wpc = "catch", ![i].error = "download"]
    /\ stages' = Event(tasks[i].payload.jobId, <<"download.begin">>)
    /\ UNCHANGED <<proc, reqs, jobSeq, storage, uploads, contacts, logs>>

\* parseContent(content), then the Array.isArray check on its result
Parse(i) ==
    /\ tasks[i].state = "running" /\ tasks[i].wpc = "downloaded"
    /\ LET rawContacts == parseContent(tasks[i].content) IN
       IF rawContacts.ok /\ rawContacts.value.t = "array"
       THEN /\ tasks' = [tasks EXCEPT ![i].wpc = "parsed", ![i].rows = rawContacts.value.items]
            /\ stages' = Event(tasks[i].payload.jobId, <<"parse.begin", "parse.ok">>)
       ELSE /\ tasks' = [tasks EXCEPT ![i].wpc = "catch", ![i].error = "parse"]
            /\ stages' = Event(tasks[i].payload.jobId, <<"parse.begin">>)
    /\ UNCHANGED <<proc, reqs, jobSeq, storage, uploads, contacts, logs>>

\* importedContactsArraySchema.parse(rawContacts), then the map to contactsToInsert
Validate(i) ==
    /\ tasks[i].state = "running" /\ tasks[i].wpc = "parsed"
    /\ LET validatedContacts == SchemaParse(tasks[i].rows) IN
       IF validatedContacts.ok
       THEN /\ tasks' = [tasks EXCEPT ![i].wpc = "validated",
                            ![i].rows = [k \in 1..Len(validatedContacts.value) |->
                                            [name |-> validatedContacts.value[k].name,
                                             email |-> validatedContacts.value[k].email,
                                             source |-> tasks[i].payload.source]]]
            /\ stages' = Event(tasks[i].payload.jobId, <<"validate.begin", "validate.ok">>)
       ELSE /\ tasks' = [tasks EXCEPT ![i].wpc = "catch", ![i].error = "validate"]
            /\ stages' = Event(tasks[i].payload.jobId, <<"validate.begin">>)
    /\ UNCHANGED <<proc, reqs, jobSeq, storage, uploads, contacts, logs>>

\* an insert that stores the first record only
createFirstOnly(rows, now) ==
    <<[name |-> rows[1].name, email |-> rows[1].email, source |-> rows[1].source,
       imported_at |-> now]>>

\* ContactRepository.createMany: stamp imported_at and insert the rows as one batch
createMany(rows, now) ==
    [k \in 1..Len(rows) |->
        [name |-> rows[k].name, email |-> rows[k].email, source |-> rows[k].source,
         imported_at |-> now]]

PersistOk(i) ==
    /\ tasks[i].state = "running" /\ tasks[i].wpc = "validated"
    /\ contacts' = contacts \o createMany(tasks[i].rows, Len(contacts) + 1)
    /\ tasks' = [tasks EXCEPT ![i].wpc = "persisted", ![i].persisted = @ + 1]
    /\ stages' = Event(tasks[i].payload.jobId, <<"persist.begin", "persist.ok">>)
    /\ UNCHANGED <<proc, reqs, jobSeq, storage, uploads, logs>>

\* the insert fails: createMany throws and no row is stored
PersistFail(i) ==
    /\ tasks[i].state = "running" /\ tasks[i].wpc = "validated"
    /\ tasks' = [tasks EXCEPT ![i].wpc = "catch", ![i].error = "persist"]
    /\ stages' = Event(tasks[i].payload.jobId, <<"persist.begin">>)
    /\ UNCHANGED <<proc, reqs, jobSeq, storage, uploads, contacts, logs>>

\* the task resolves: "Successfully processed n contacts"
Succeed(t) ==
    [t EXCEPT !.state = "succeeded", !.wpc = "", !.report = "success",
              !.content = NoText, !.rows = <<>>]

\* storageRepository.deleteFile(fileName) resolves
CleanupOk(i) ==
    /\ tasks[i].state = "running" /\ tasks[i].wpc = "persisted"
    /\ storage' = [storage EXCEPT ![TaskFileName(tasks[i].payload)] = NoObject]
    /\ logs' = logs \cup {LogEntry("info", "Cleaned up file", tasks[i].payload),
                          LogEntry("info", "Successfully processed", tasks[i].payload)}
    /\ tasks' = [tasks EXCEPT ![i] = Succeed([tasks[i] EXCEPT !.cleaned = TRUE])]
    /\ stages' = Event(tasks[i].payload.jobId, <<"cleanup.begin", "cleanup.ok">>)
    /\ UNCHANGED <<proc, reqs, jobSeq, uploads, contacts>>

\* a deleteFile error that reaches the outer catch block
CleanupRethrown(t) == [t EXCEPT !.error = "cleanup", !.wpc = "catch"]

\* what processImportJob does when deleteFile throws: log it and go on
CleanupFailed(t) == Succeed([t EXCEPT !.error = "cleanup"])

CleanupFail(i) ==
    /\ tasks[i].state = "running" /\ tasks[i].wpc = "persisted"
    /\ logs' = logs \cup {LogEntry("error", "Cleanup failed", tasks[i].payload),
                          LogEntry("info", "Successfully processed", tasks[i].payload)}
    /\ tasks' = [tasks EXCEPT ![i] = CleanupFailed([tasks[i] EXCEPT !.cleaned = TRUE])]
    /\ stages' = Event(tasks[i].payload.jobId, <<"cleanup.begin">>)
    /\ UNCHANGED <<proc, reqs, jobSeq, storage, uploads, contacts>>

\* a catch block that logs the error and lets the handler return normally
RethrowOmitted(t) ==
    [t EXCEPT !.state = "succeeded", !.wpc = "", !.report = "success",
              !.content = NoText, !.rows = <<>>]

\* a catch block that deletes the artifact before it re-throws
RethrowAfterDelete(t) ==
    [t EXCEPT !.state = AfterFailure(t), !.wpc = "", !.report = "error",
              !.content = NoText, !.rows = <<>>, !.cleaned = TRUE]

\* the outer catch block: log "Failed to process import job" and re-throw
Rethrow(t) ==
    [t EXCEPT !.state = AfterFailure(t), !.wpc = "", !.report = "error",
              !.content = NoText, !.rows = <<>>]

\* the stage events of a job whose attempt is over without success
AttemptOver(job) == [stages EXCEPT ![job] = SelectSeq(@, IsIngressStage)]

Catch(i) ==
    /\ tasks[i].state = "running" /\ tasks[i].wpc = "catch"
    /\ logs' = logs \cup {LogEntry("error", "Failed to process import job", tasks[i].payload)}
    /\ tasks' = [tasks EXCEPT ![i] = Rethrow(tasks[i])]
    /\ stages' = AttemptOver(tasks[i].payload.jobId)
    /\ UNCHANGED <<proc, reqs, jobSeq, storage, uploads, contacts>>

\* the worker process dies between the insert and the deletion, and the queue runs
\* the task again.  (A death earlier in the attempt leaves storage and the table as
\* the failing actions above leave them.)
Crash(i) ==
    /\ tasks[i].state = "running" /\ tasks[i].wpc = "persisted"
    /\ tasks' = [tasks EXCEPT ![i].state = AfterFailure(tasks[i]), ![i].wpc = "",
                              ![i].report = "crash", ![i].error = "",
                              ![i].content = NoText, ![i].rows = <<>>]
    /\ stages' = AttemptOver(tasks[i].payload.jobId)
    /\ UNCHANGED <<proc, reqs, jobSeq, storage, uploads, contacts, logs>>

(***************************************************************************)
(* The system.                                                             *)
(***************************************************************************)
Next ==
    \/ \E r \in Requests :
        \/ SubmitJson(r)
        \/ SubmitUpload(r, "multipart")
        \/ SubmitUpload(r, "stream")
        \/ DirectUploadOk(r)
        \/ DirectUploadFail(r)
        \/ StartUpload(r)
        \/ StartUploadThrows(r)
        \/ SendChunk(r)
        \/ UploadError(r)
        \/ EnqueueOk(r)
        \/ EnqueueFail(r)
    \/ \E i \in 1..Len(tasks) :
        \/ Dequeue(i)
        \/ DownloadOk(i)
        \/ DownloadFail(i)
        \/ Parse(i)
        \/ Validate(i)
        \/ PersistOk(i)
        \/ PersistFail(i)
        \/ CleanupOk(i)
        \/ CleanupFail(i)
        \/ Catch(i)
        \/ Crash(i)

Spec == Init /\ [][Next]_vars

(***************************************************************************)
(* The upload path alone, with the retry schedule of the tus client.       *)
(***************************************************************************)
NextUpload ==
    \E r \in Requests :
        \/ SubmitJson(r)
        \/ SubmitUpload(r, "multipart")
        \/ SubmitUpload(r, "stream")
        \/ DirectUploadOk(r)
        \/ DirectUploadFail(r)
        \/ StartUpload(r)
        \/ StartUploadThrows(r)
        \/ SendChunk(r)
        \/ ChunkRetry(r)
        \/ RetriesExhausted(r)
        \/ UploadError(r)
        \/ EnqueueOk(r)
        \/ EnqueueFail(r)

SpecUpload == Init /\ [][NextUpload]_vars

\* the same with the event loop at work: a step that can be taken is taken
SpecUploadFair == SpecUpload /\ WF_vars(NextUpload)

(***************************************************************************)
(* The worker's parse step on two staged uploads that carry the same       *)
(* contact list, one as a bare array and one inside an envelope object.    *)
(***************************************************************************)
ContactLists ==
    {<<>>, <<Alice>>, <<Alice, Bob>>, <<Bob, Alice>>, <<Alice, BadEmail>>, <<NoEmail>>,
     <<Longest, NoName>>}

\* a multipart upload that has been staged on the direct path and answered
StagedUpload(r, jobId, body) ==
    LET in == [present |-> TRUE, body |-> body, readable |-> TRUE,
               source |-> SourceOf(r), useResumable |-> FALSE]
        q == BeginImport([IdleReq EXCEPT !.kind = "multipart", !.input = in],
                         "multipart", SourceOf(r), body, FALSE,
                         [jobId |-> jobId, source |-> SourceOf(r), uploadType |-> "file"],
                         jobId)
    IN Answer([q EXCEPT !.staged = TRUE, !.stagedAt = FileNameOf(jobId)], 200, jobId, "", {})

InitParse ==
    \E list \in ContactLists, label \in {"acme", "crm"} :
        LET bare == JSONstringify(JArray(list))
            envelope == JSONstringify(JObject([source |-> label, data |-> JArray(list)]))
        IN
        /\ reqs = [r \in Requests |->
                    IF r = First THEN StagedUpload(r, 1, bare)
                    ELSE StagedUpload(r, 2, envelope)]
        /\ jobSeq = 2
        /\ storage = [k \in FileNames |->
                        IF k = FileNameOf(1) THEN [body |-> bare, metadata |-> NoMeta]
                        ELSE [body |-> envelope, metadata |-> NoMeta]]
        /\ uploads = [u \in JobIds |-> NoUpload]
        /\ tasks = <<NewTask([jobId |-> 1, source |-> SourceOf(First),
                              fileName |-> FileNameOf(1)]),
                     NewTask([jobId |-> 2, source |-> "crm", fileName |-> FileNameOf(2)])>>
        /\ contacts = <<>>
        /\ logs = {}
    /\ proc = ProcStart
        /\ stages = [j \in JobIds |->
                        <<"stage.begin", "stage.ok", "enqueue.begin", "enqueue.ok">>]

NextParse ==
    \E i \in 1..Len(tasks) :
        \/ Dequeue(i)
        \/ DownloadOk(i)
        \/ Parse(i)

SpecParse == InitParse /\ [][NextParse]_vars

(***************************************************************************)
(* Job ids as ImportService.generateJobId makes them: the millisecond of   *)
(* Date.now(), a dash and the base-36 digits of Math.random().  The text   *)
(* "<ms>-<suffix>" is one-to-one in the pair, and so is the number that    *)
(* stands for it here.  Submissions take the direct path.                  *)
(***************************************************************************)
Clock == 0..MaxClock
Suffixes == 0..MaxSuffix
GeneratedIds == 1..((MaxClock + 1) * (MaxSuffix + 1))

\* an id made of the millisecond alone
timestampOnly(ms, rnd) == ms + 1

generateJobId(ms, rnd) == ms * (MaxSuffix + 1) + rnd + 1

NotGenerated == [at |-> -1, rnd |-> -1]

InitJobId ==
    /\ reqs = [r \in Requests |-> IdleReq @@ NotGenerated]
    /\ jobSeq = 0
    /\ storage = [k \in {FileNameOf(j) : j \in GeneratedIds} |-> NoObject]
    /\ uploads = [u \in GeneratedIds |-> NoUpload]
    /\ tasks = <<>>
    /\ contacts = <<>>
    /\ logs = {}
    /\ proc = ProcStart
    /\ stages = [j \in GeneratedIds |-> <<>>]

\* Date.now() never runs behind the millisecond of an id generated before
Now == {ms \in Clock : \A r \in Requests : reqs[r].at <= ms}

\* ImportService.processImport(request, false) up to the storage call
ProcessImport(r) ==
    /\ reqs[r].pc = "idle"
    /\ \E body \in {b \in JsonBodies(r) : b.parsed /\ importRequestIssues(b.value) = {}} :
       \E ms \in Now :
       \E rnd \in Suffixes :
        LET jobId == generateJobId(ms, rnd)
            q == [reqs[r] EXCEPT !.input = body, !.at = ms, !.rnd = rnd]
        IN reqs' = [reqs EXCEPT ![r] =
                BeginImport(q, "json", body.value.source,
                            JSONstringify(JArray(body.value.data)), FALSE,
                            [jobId |-> jobId, source |-> body.value.source, uploadType |-> ""],
                            jobId)]
    /\ jobSeq' = jobSeq + 1
    /\ UNCHANGED <<proc, storage, uploads, tasks, contacts, logs, stages>>

NextJobId ==
    \E r \in Requests :
        \/ ProcessImport(r)
        \/ DirectUploadOk(r)
        \/ DirectUploadFail(r)
        \/ EnqueueOk(r)
        \/ EnqueueFail(r)

SpecJobId == InitJobId /\ [][NextJobId]_vars

(***************************************************************************)
(* router.post from the Content-Type header on: detectContentType picks    *)
(* the variant and createHandler(variant) handles the request.             *)
(***************************************************************************)
UpperCase == "ABCDEFGHIJKLMNOPQRSTUVWXYZ"
LowerCase == "abcdefghijklmnopqrstuvwxyz"

LowerChar(c) ==
    IF \E i \in 1..Len(UpperCase) : SubSeq(UpperCase, i, i) = c
    THEN LET i == CHOOSE k \in 1..Len(UpperCase) : SubSeq(UpperCase, k, k) = c
         IN SubSeq(LowerCase, i, i)
    ELSE c

RECURSIVE toLowerCase(_)
toLowerCase(str) ==
    IF Len(str) = 0 THEN ""
    ELSE LowerChar(SubSeq(str, 1, 1)) \o toLowerCase(SubSeq(str, 2, Len(str)))

includes(str, part) ==
    \E i \in 1..(Len(str) - Len(part) + 1) : SubSeq(str, i, i + Len(part) - 1) = part

\* a detection that compares the header as it was sent
detectCaseSensitive(contentType) ==
    LET ct == contentType IN
    IF ct = "" THEN "stream"
    ELSE IF includes(ct, "multipart/form-data") THEN "multipart"
    ELSE IF includes(ct, "application/json") THEN "json"
    ELSE "stream"

detectContentType(contentType) ==
    LET ct == toLowerCase(contentType) IN
    IF ct = "" THEN "stream"
    ELSE IF includes(ct, "multipart/form-data") THEN "multipart"
    ELSE IF includes(ct, "application/json") THEN "json"
    ELSE "stream"

\* Content-Type headers a request may carry; an absent header has set = FALSE
ContentTypeHeaders ==
    {[set |-> FALSE, value |-> ""]}
    \cup [set : {TRUE},
          value : {"", "multipart/form-data; boundary=x", "MULTIPART/FORM-DATA",
                   "Multipart/Form-Data; boundary=x", "application/json",
                   "Application/JSON; charset=utf-8", "text/json", "multipart/form-dat",
                   "application/octet-stream", "text/plain",
                   "application/json, multipart/form-data"}]

\* c.req.header("Content-Type") || ""
HeaderOrEmpty(header) == IF header.set THEN header.value ELSE ""

InitDetect ==
    /\ reqs \in [Requests -> {IdleReq @@ [header |-> h, contentType |-> "none"] :
                                h \in ContentTypeHeaders}]
    /\ jobSeq = 0
    /\ storage = [k \in FileNames |-> NoObject]
    /\ uploads = [u \in JobIds |-> NoUpload]
    /\ tasks = <<>>
    /\ contacts = <<>>
    /\ logs = {}
    /\ proc = ProcStart
    /\ stages = [j \in JobIds |-> <<>>]

\* router.post: const contentType = detectContentType(contentTypeHeader)
Detect(r) ==
    /\ reqs[r].pc = "idle"
    /\ reqs[r].contentType = "none"
    /\ reqs' = [reqs EXCEPT ![r].contentType = detectContentType(HeaderOrEmpty(reqs[r].header))]
    /\ UNCHANGED <<proc, jobSeq, storage, uploads, tasks, contacts, logs, stages>>

\* router.post: createHandler(contentType) and the call of the handler
HandleJson(r) == reqs[r].contentType = "json" /\ SubmitJson(r)
HandleMultipart(r) == reqs[r].contentType = "multipart" /\ SubmitUpload(r, "multipart")
HandleStream(r) == reqs[r].contentType = "stream" /\ SubmitUpload(r, "stream")

NextDetect ==
    \E r \in Requests :
        \/ Detect(r)
        \/ HandleJson(r)
        \/ HandleMultipart(r)
        \/ HandleStream(r)

SpecDetect == InitDetect /\ [][NextDetect]_vars

(***************************************************************************)
(* The handoff in the steps of worker-utils addJob: createWorkerUtils()    *)
(* makes a WorkerUtils handle, workerUtils.addJob enqueues through it.     *)
(* Submissions take the direct path.                                       *)
(***************************************************************************)
InitAddJob ==
    /\ reqs = [r \in Requests |-> IdleReq @@ [handle |-> "none"]]
    /\ jobSeq = 0
    /\ storage = [k \in FileNames |-> NoObject]
    /\ uploads = [u \in JobIds |-> NoUpload]
    /\ tasks = <<>>
    /\ contacts = <<>>
    /\ logs = {}
    /\ proc = ProcStart
    /\ stages = [j \in JobIds |-> <<>>]

\* const workerUtils = await createWorkerUtils()
CreateWorkerUtils(r) ==
    /\ reqs[r].pc = "staged"
    /\ reqs[r].handle = "none"
    /\ reqs' = [reqs EXCEPT ![r].handle = "open"]
    /\ UNCHANGED <<proc, jobSeq, storage, uploads, tasks, contacts, logs, stages>>

\* makeWorkerUtils rejects: addJob rejects before workerUtils.addJob is called
CreateWorkerUtilsFails(r) ==
    /\ reqs[r].handle = "none"
    /\ EnqueueFail(r)

\* return await workerUtils.addJob(taskName, payload), resolving
AddJobResolves(r) ==
    /\ reqs[r].handle = "open"
    /\ EnqueueOk(r)

\* return await workerUtils.addJob(taskName, payload), rejecting
AddJobRejects(r) ==
    /\ reqs[r].handle = "open"
    /\ EnqueueFail(r)

NextAddJob ==
    \E r \in Requests :
        \/ SubmitJson(r)
        \/ SubmitUpload(r, "multipart")
        \/ SubmitUpload(r, "stream")
        \/ DirectUploadOk(r)
        \/ DirectUploadFail(r)
        \/ CreateWorkerUtils(r)
        \/ CreateWorkerUtilsFails(r)
        \/ AddJobResolves(r)
        \/ AddJobRejects(r)

SpecAddJob == InitAddJob /\ [][NextAddJob]_vars

(***************************************************************************)
(* The worker process and its signal handlers, next to the tasks it runs.  *)
(* runner.stop() belongs to the queue collaborator: it resolves or         *)
(* rejects.  A rejection inside gracefulShutdown is handled by nobody: the *)
(* runtime either ends the process with code 1 or only warns.              *)
(***************************************************************************)
Signals == {"SIGINT", "SIGTERM"}

Alive == proc.pc # "exited"

\* process.on(signal, () => gracefulShutdown(signal)) up to await runner.stop()
gracefulShutdown(signal) ==
    /\ Alive
    /\ signal \notin proc.received
    /\ proc' = [proc EXCEPT !.pc = "stopping", !.received = @ \cup {signal},
                            !.stopping = @ \cup {signal}]
    /\ UNCHANGED <<reqs, jobSeq, storage, uploads, tasks, contacts, logs, stages>>

\* runner.stop() resolves: process.exit(0)
StopResolves(signal) ==
    /\ Alive
    /\ signal \in proc.stopping
    /\ proc' = [proc EXCEPT !.pc = "exited", !.exitCode = 0, !.stopping = @ \ {signal}]
    /\ UNCHANGED <<reqs, jobSeq, storage, uploads, tasks, contacts, logs, stages>>

\* runner.stop() rejects: the await throws, process.exit(0) is skipped and the
\* promise of gracefulShutdown is rejected with no handler
StopRejects(signal) ==
    /\ Alive
    /\ signal \in proc.stopping
    /\ \E ends \in BOOLEAN :
        proc' = IF ends
                THEN [proc EXCEPT !.pc = "exited", !.exitCode = 1, !.stopping = @ \ {signal}]
                ELSE [proc EXCEPT !.pc = IF proc.stopping = {signal} THEN "stopFailed"
                                         ELSE "stopping",
                                  !.stopping = @ \ {signal}]
    /\ UNCHANGED <<reqs, jobSeq, storage, uploads, tasks, contacts, logs, stages>>

\* the tasks the runner works on while the process lives
RunDequeue(i) == Alive /\ Dequeue(i)
RunDownload(i) == Alive /\ DownloadOk(i)
RunParse(i) == Alive /\ Parse(i)

NextShutdown ==
    \/ \E signal \in Signals :
        \/ gracefulShutdown(signal)
        \/ StopResolves(signal)
        \/ StopRejects(signal)
    \/ \E i \in 1..Len(tasks) :
        \/ RunDequeue(i)
        \/ RunDownload(i)
        \/ RunParse(i)

SpecShutdown == InitParse /\ [][NextShutdown]_vars

(***************************************************************************)
(* Properties.                                                             *)
(***************************************************************************)
\* the number of processImportJob tasks the queue holds for a job
Enqueued(job) == Cardinality({i \in 1..Len(tasks) : tasks[i].payload.jobId = job})

Submitted == {r \in Requests : reqs[r].jobId # 0}

\* C1, as stated: a submission whose staging succeeded has exactly one task once
\* it is over, a task exists only for a staged artifact, and a submission whose
\* staging failed has none.
C1_ExactlyOneTask ==
    \A r \in Submitted :
        /\ (reqs[r].pc = "responded" /\ reqs[r].staged) => Enqueued(reqs[r].jobId) = 1
        /\ Enqueued(reqs[r].jobId) >= 1 => reqs[r].staged
        /\ ~reqs[r].staged => Enqueued(reqs[r].jobId) = 0

\* C1, amended: a job never has two tasks; a task exists only once the artifact
\* is staged (the object is in storage when the task is appended, and the stage
\* events come first); a submission answered with its jobId has exactly one task;
\* a submission whose staging failed, or whose addJob call failed, has none.
C1_AtMostOneTask ==
    \A r \in Submitted :
        LET job == reqs[r].jobId IN
        /\ Enqueued(job) <= 1
        /\ Enqueued(job) >= 1 =>
                /\ reqs[r].staged
                /\ Len(stages[job]) >= 4
                /\ SubSeq(stages[job], 1, 4)
                        = <<"stage.begin", "stage.ok", "enqueue.begin", "enqueue.ok">>
        /\ reqs[r].response.status = 200 => Enqueued(job) = 1
        /\ (reqs[r].pc = "responded" /\ reqs[r].response.status # 200) => Enqueued(job) = 0
        /\ ~reqs[r].staged => Enqueued(job) = 0

\* a staged submission answered with its jobId, and a staged one whose addJob failed
C1_Witness ==
    /\ reqs["r1"].staged /\ reqs["r1"].response.status = 200 /\ Enqueued(reqs["r1"].jobId) = 1
    /\ reqs["r2"].staged /\ reqs["r2"].thrown.origin = "queue"
    /\ Enqueued(reqs["r2"].jobId) = 0

\* C2: every row of the contacts table passed the contact schema; an attempt gets
\* past validation only if every element of the downloaded array passed it; and an
\* attempt whose array holds a failing element ends in the catch block without a
\* single row inserted.
RawContacts(t) == parseContent(t.content).value.items

C2_Validated ==
    /\ \A k \in 1..Len(contacts) : importedContactSchema(contacts[k])
    /\ \A i \in 1..Len(tasks) :
        /\ tasks[i].wpc \in {"validated", "persisted"} =>
                /\ Len(RawContacts(tasks[i])) >= 1
                /\ \A k \in 1..Len(RawContacts(tasks[i])) :
                        importedContactSchema(RawContacts(tasks[i])[k])
        /\ tasks[i].error = "validate" => tasks[i].wpc # "persisted"

C2_AllOrNothing ==
    [][\A i \in 1..Len(tasks) :
        (/\ tasks[i].wpc = "parsed"
         /\ \E k \in 1..Len(tasks[i].rows) : ~importedContactSchema(tasks[i].rows[k])
         /\ tasks'[i] # tasks[i])
        => /\ contacts' = contacts
           /\ tasks'[i].state # "succeeded"
           /\ tasks'[i].wpc \in {"catch", ""}
           /\ tasks'[i].persisted = tasks[i].persisted]_vars

C2_InvalidElementFailsTask == []C2_Validated /\ C2_AllOrNothing

\* an array whose first element passes and whose second fails was rejected, and
\* the table is empty
C2_Witness ==
    \E i \in 1..Len(tasks) :
        /\ tasks[i].wpc = "catch" /\ tasks[i].error = "validate"
        /\ Len(RawContacts(tasks[i])) = 2
        /\ importedContactSchema(RawContacts(tasks[i])[1])
        /\ ~importedContactSchema(RawContacts(tasks[i])[2])
        /\ tasks[i].persisted = 0
        /\ contacts = <<>>

\* C3: a task whose deleteFile call failed after its insert is reported to the
\* queue as successful, its rows stay inserted, and the failure is in the log.
C3_CleanupFailureTolerated ==
    \A i \in 1..Len(tasks) :
        tasks[i].error = "cleanup" =>
            /\ tasks[i].state = "succeeded"
            /\ tasks[i].report = "success"
            /\ tasks[i].persisted >= 1
            /\ LogEntry("error", "Cleanup failed", tasks[i].payload) \in logs
            /\ LogEntry("info", "Successfully processed", tasks[i].payload) \in logs

\* the delete failed, the artifact is still in storage, the task has succeeded
C3_Witness ==
    \E i \in 1..Len(tasks) :
        /\ tasks[i].error = "cleanup"
        /\ tasks[i].state = "succeeded"
        /\ storage[TaskFileName(tasks[i].payload)] # NoObject
        /\ Len(contacts) >= 1

\* C4: a task inserts its contacts at most once, however often the queue runs it
\* (a worker that dies after createMany and before deleteFile is run again).
C4_InsertedOnce ==
    \A i \in 1..Len(tasks) : tasks[i].persisted <= 1

\* C5, as stated: an attempt that downloaded the artifact and is over, with
\* success or with an error, has called deleteFile.
C5_DeletionAlwaysAttempted ==
    \A i \in 1..Len(tasks) :
        (tasks[i].state # "running" /\ tasks[i].report \in {"success", "error"}
            /\ tasks[i].consumed)
        => tasks[i].cleaned

\* C5, amended: deleteFile is called in the successful outcome only, after the
\* insert; an attempt that ends with an error has not called it, and the artifact
\* it downloaded is still in storage for the next attempt.
C5_DeletionAfterInsertOnly ==
    \A i \in 1..Len(tasks) :
        /\ tasks[i].state = "succeeded" => (tasks[i].consumed /\ tasks[i].cleaned)
        /\ tasks[i].cleaned =>
                (tasks[i].state = "succeeded" /\ tasks[i].persisted >= 1)
        /\ (tasks[i].state # "running" /\ tasks[i].report = "error") =>
                /\ ~tasks[i].cleaned
                /\ tasks[i].consumed => storage[TaskFileName(tasks[i].payload)] # NoObject

\* one task has succeeded and has called deleteFile; another has failed after its
\* download and has not
C5_Witness ==
    \E i, k \in 1..Len(tasks) :
        /\ tasks[i].state = "succeeded" /\ tasks[i].cleaned
        /\ tasks[k].state # "running" /\ tasks[k].report = "error"
        /\ tasks[k].consumed /\ ~tasks[k].cleaned

\* what a caller can tell about a failed submission: the HTTP answer, and the
\* type and code of the error ImportService threw
Failure(q) ==
    [status |-> q.response.status, error |-> q.response.error,
     name |-> q.thrown.name, code |-> q.thrown.code]

\* C6: a submission whose addJob call failed after a successful staging ends with
\* an error and without a jobId, and what the caller is told differs from what it
\* is told when the upload itself failed.
C6_EnqueueFailureDistinct ==
    \A a \in Requests :
        (reqs[a].staged /\ reqs[a].thrown.origin = "queue") =>
            /\ reqs[a].response.status # 200
            /\ reqs[a].response.jobId = 0
            /\ \A b \in Requests :
                    reqs[b].thrown.origin \in {"storage", "tus"} =>
                        Failure(reqs[a]) # Failure(reqs[b])

\* the pipeline stages of one job, in the order the design fixes
StageOrder ==
    <<"stage.begin", "stage.ok", "enqueue.begin", "enqueue.ok",
      "download.begin", "download.ok", "parse.begin", "parse.ok",
      "validate.begin", "validate.ok", "persist.begin", "persist.ok",
      "cleanup.begin", "cleanup.ok">>

IsPrefix(s, t) == Len(s) <= Len(t) /\ SubSeq(t, 1, Len(s)) = s

\* C7: the stage events of a job are a prefix of the fixed order (a stage begins
\* only when the one before it has completed, none is skipped, none comes twice);
\* a job answered with its jobId has been staged and enqueued, and a succeeded
\* task has gone through every stage up to the deleteFile call.
C7_StagesInOrder ==
    /\ \A job \in JobIds : IsPrefix(stages[job], StageOrder)
    /\ \A r \in Requests :
            reqs[r].response.status = 200 => Len(stages[reqs[r].jobId]) >= 4
    /\ \A i \in 1..Len(tasks) :
            tasks[i].state = "succeeded" => Len(stages[tasks[i].payload.jobId]) >= 13

\* a job has gone through all its stages, the deletion included
C7_Witness ==
    \E i \in 1..Len(tasks) :
        /\ tasks[i].state = "succeeded"
        /\ stages[tasks[i].payload.jobId] = StageOrder

FailingStages == {"download", "parse", "validate", "persist"}

\* C8: an attempt that failed in its download, parse, validate or persist stage
\* is in the catch block, and once it is over it has been reported to the queue
\* as failed, with the error logged; a task reported successful had no such failure.
C8_FailureRethrown ==
    \A i \in 1..Len(tasks) :
        /\ tasks[i].wpc = "catch" =>
                (tasks[i].error \in FailingStages /\ tasks[i].state = "running")
        /\ (tasks[i].error \in FailingStages /\ tasks[i].state # "running") =>
                /\ tasks[i].report = "error"
                /\ tasks[i].state \in {"queued", "dead"}
                /\ LogEntry("error", "Failed to process import job", tasks[i].payload) \in logs
        /\ tasks[i].report = "success" => tasks[i].error \notin FailingStages
        /\ tasks[i].state = "succeeded" => tasks[i].report = "success"

\* an attempt whose insert failed has been handed back to the queue as failed
C8_Witness ==
    \E i \in 1..Len(tasks) :
        /\ tasks[i].error = "persist"
        /\ tasks[i].state = "queued"
        /\ tasks[i].report = "error"

C10_ResumesFromOffset ==
    \A r \in Requests :
        (reqs[r].useResumable /\ reqs[r].previous >= 0) =>
            /\ reqs[r].url \in JobIds \ {reqs[r].jobId}
            /\ uploads[reqs[r].url].fingerprint = Fingerprint(reqs[r].content)
            /\ uploads[reqs[r].url].offset >= reqs[r].previous
            /\ reqs[r].sent <= ByteLen(reqs[r].content) - reqs[r].previous

\* a resumed upload has completed after sending exactly the missing bytes
C10_Witness ==
    \E r \in Requests :
        /\ reqs[r].previous > 0
        /\ reqs[r].staged
        /\ reqs[r].sent = ByteLen(reqs[r].content) - reqs[r].previous
        /\ reqs[r].sent < ByteLen(reqs[r].content)

\* C11: a failing chunk is retried at most once per delay of retryDelays, each
\* retry after the delay the schedule gives for it; when the chunk fails with the
\* schedule used up (and the chunk does not go through on that last retry) the
\* upload is rejected (500, nothing staged, no task), and a rejected submission
\* is never taken up again.
C11_WithinSchedule ==
    \A r \in Requests :
        /\ reqs[r].retries \in 0..Len(RetryDelays)
        /\ reqs[r].retries > 0 => reqs[r].delay = RetryDelays[reqs[r].retries]
        /\ reqs[r].thrown.origin = "tus" =>
                /\ reqs[r].pc = "responded"
                /\ reqs[r].response.status = 500
                /\ ~reqs[r].staged
                /\ Enqueued(reqs[r].jobId) = 0

C11_NoFurtherAttempt ==
    [][\A r \in Requests :
        /\ reqs'[r].retries > reqs[r].retries => reqs'[r].retries = reqs[r].retries + 1
        /\ (reqs[r].pc = "tusSending" /\ reqs[r].retries = Len(RetryDelays)
                /\ reqs'[r] # reqs[r]) =>
                \/ reqs'[r].pc \in {"tusSending", "staged"} /\ reqs'[r].retries = 0
                \/ reqs'[r].pc = "responded" /\ reqs'[r].thrown.origin = "tus"
        /\ reqs[r].pc = "responded" => reqs'[r] = reqs[r]]_vars

C11_BoundedRetry == []C11_WithinSchedule /\ C11_NoFurtherAttempt

\* an upload was rejected after a chunk had used up the whole schedule, with part
\* of the payload already acknowledged
C11_Witness ==
    \E r \in Requests :
        /\ reqs[r].thrown.origin = "tus"
        /\ reqs[r].retries = Len(RetryDelays)
        /\ reqs[r].delay = 20000
        /\ reqs[r].sent > 0

\* C12: after a resumable upload was rejected with part of its payload
\* acknowledged, its session is still recorded (as long as no later upload has
\* completed it), so that findPreviousUploads of a later invocation with the same
\* fingerprint returns it with the offset the failed attempt reached.
C12_SessionKept ==
    \A r \in Requests :
        (/\ reqs[r].useResumable
         /\ reqs[r].thrown.origin = "tus"
         /\ reqs[r].sent > 0
         /\ uploads[reqs[r].url].offset < uploads[reqs[r].url].total)
        => /\ uploads[reqs[r].url].stored
           /\ \E k \in 1..Len(findPreviousUploads(reqs[r].content)) :
                    findPreviousUploads(reqs[r].content)[k] = reqs[r].url
           /\ uploads[reqs[r].url].offset >= reqs[r].sent

\* C13: a storage write failure during staging, on the direct path or on the
\* resumable path, leaves ImportService as ImportError with code UPLOAD_FAILED.
C13_UploadFailedSurfaced ==
    \A r \in Requests :
        reqs[r].thrown.origin \in {"storage", "tus"} =>
            /\ reqs[r].thrown.name = "ImportError"
            /\ reqs[r].thrown.code = "UPLOAD_FAILED"
            /\ reqs[r].response.status = 500
            /\ reqs[r].response.jobId = 0

\* C14: a bare array artifact and an envelope artifact {source, data} holding the
\* same array parse to the same result, and the two tasks that parse them hold
\* the identical contact list, the one that was staged.
C14_SameContactList ==
    LET bare == storage[FileNameOf(1)].body
        envelope == storage[FileNameOf(2)].body
    IN
    /\ bare.value.t = "array" /\ envelope.value.t = "object"
    /\ envelope.value.fields.data = bare.value
    /\ parseContent(envelope) = parseContent(bare)
    /\ parseContent(bare) = [ok |-> TRUE, value |-> bare.value]
    /\ \A i \in 1..Len(tasks) :
            tasks[i].wpc = "parsed" => tasks[i].rows = bare.value.items

\* both tasks have parsed their artifact and hold the same two contacts
C14_Witness ==
    /\ tasks[1].wpc = "parsed" /\ tasks[2].wpc = "parsed"
    /\ tasks[1].content # tasks[2].content
    /\ tasks[1].rows = tasks[2].rows
    /\ Len(tasks[1].rows) = 2

\* the shapes parseContent and the Array.isArray check accept: a JSON array, or a
\* JSON object whose data field holds an array
WellShaped(content) ==
    /\ content.text = "json"
    /\ \/ content.value.t = "array"
       \/ /\ content.value.t = "object"
          /\ "data" \in DOMAIN content.value.fields
          /\ content.value.fields.data.t = "array"

\* C15: an attempt that downloaded an artifact of any other shape gets no further
\* than its parse step, which fails it with a parse error; a task whose artifact
\* has such a shape never succeeds and never inserts a row.
C15_IllShaped ==
    \A i \in 1..Len(tasks) :
        LET artifact == storage[TaskFileName(tasks[i].payload)] IN
        /\ (tasks[i].content # NoText /\ ~WellShaped(tasks[i].content)) =>
                /\ tasks[i].wpc \in {"downloaded", "catch"}
                /\ tasks[i].wpc = "catch" => tasks[i].error = "parse"
        /\ (artifact # NoObject /\ ~WellShaped(artifact.body)) =>
                (tasks[i].persisted = 0 /\ tasks[i].state # "succeeded")
        /\ tasks[i].error = "parse" => tasks[i].report # "success"

C15_ParseStep ==
    [][\A i \in 1..Len(tasks) :
        (tasks[i].wpc = "downloaded" /\ ~WellShaped(tasks[i].content)
            /\ tasks'[i] # tasks[i])
        => /\ tasks'[i].wpc = "catch"
           /\ tasks'[i].error = "parse"
           /\ contacts' = contacts]_vars

C15_ParseErrorFailsTask == []C15_IllShaped /\ C15_ParseStep

\* each kind of ill-shaped artifact has made a task fail with a parse error, with
\* the table empty: here an object without a data field
C15_Witness ==
    \E i \in 1..Len(tasks) :
        /\ tasks[i].wpc = "catch" /\ tasks[i].error = "parse"
        /\ tasks[i].content = JSONstringify(JObject([contacts |-> JArray(<<>>)]))
        /\ tasks[i].persisted = 0
        /\ contacts = <<>>

\* the contacts the table holds for a source label, without their time stamps
Persisted(source) ==
    LET rows == SelectSeq(contacts, LAMBDA c : c.source = source)
    IN [k \in 1..Len(rows) |-> [name |-> rows[k].name, email |-> rows[k].email]]

Generated == {r \in Requests : reqs[r].at >= 0}

EmptyArtifact == JSONstringify(JArray(<<>>))

EmptyJson(r) ==
    /\ reqs[r].kind = "json"
    /\ reqs[r].input.parsed
    /\ importRequestIssues(reqs[r].input.value) = {<<"data">>}
    /\ reqs[r].input.value.data = <<>>

EmptyUpload(r) ==
    /\ reqs[r].kind = "multipart"
    /\ reqs[r].content = EmptyArtifact

FieldPaths(v) ==
    {<<"source">>, <<"data">>}
    \cup (IF "data" \in DOMAIN v
          THEN {<<"data", i, f>> : i \in 1..Len(v.data), f \in {"name", "email"}}
          ELSE {})

Conforms(v, p) ==
    IF p = <<"source">>
    THEN "source" \in DOMAIN v /\ Len(v.source) \in 1..MaxSourceLen
    ELSE IF p = <<"data">>
    THEN "data" \in DOMAIN v /\ Len(v.data) >= 1
    ELSE LET c == v.data[p[2]] IN
         IF p[3] = "name"
         THEN "name" \in DOMAIN c /\ Len(c.name) \in MinNameLen..MaxNameLen
         ELSE "email" \in DOMAIN c /\ IsEmail(c.email)

OffendingPaths(v) == {p \in FieldPaths(v) : ~Conforms(v, p)}

ParsedJson(r) == reqs[r].kind = "json" /\ reqs[r].input.parsed

\* C21: a parsed JSON body that violates the import schema is answered 400
\* "Invalid JSON format" without a job, and the issues of the answer are exactly
\* the offending field paths of the body, all of them; a body that meets the
\* schema is never answered 400.
C21_EveryOffendingPath ==
    \A r \in Requests :
        (ParsedJson(r) /\ reqs[r].pc = "responded") =>
            IF OffendingPaths(reqs[r].input.value) # {}
            THEN /\ reqs[r].response.status = 400
                 /\ reqs[r].response.error = "Invalid JSON format"
                 /\ reqs[r].response.issues = OffendingPaths(reqs[r].input.value)
                 /\ reqs[r].jobId = 0
            ELSE reqs[r].response.status # 400

C21_Witness ==
    \E r \in Requests :
        /\ ParsedJson(r)
        /\ reqs[r].response.status = 400
        /\ reqs[r].response.issues =
                {<<"source">>, <<"data", 1, "email">>, <<"data", 2, "name">>}

\* C22: a body declared as JSON that cannot be parsed is answered 400, like a
\* body that violates the schema.
C22_MalformedAnswered400 ==
    \A r \in Requests :
        (reqs[r].kind = "json" /\ ~reqs[r].input.parsed /\ reqs[r].pc = "responded") =>
            reqs[r].response.status = 400

\* C23: a multipart submission without the file part or without the source field
\* is answered 400 with "Missing required field: <name>", the name being that of
\* the missing field (file when both are missing), and no job is created.
C23_MissingFieldNamed ==
    \A r \in Requests :
        (reqs[r].kind = "multipart" /\ (~reqs[r].input.present \/ reqs[r].input.source = "")) =>
            /\ reqs[r].pc = "responded"
            /\ reqs[r].response.status = 400
            /\ reqs[r].response.error =
                    IF reqs[r].input.present THEN "Missing required field: source"
                    ELSE "Missing required field: file"
            /\ reqs[r].jobId = 0

C23_Witness ==
    \E r \in Requests :
        /\ reqs[r].kind = "multipart"
        /\ reqs[r].input.present
        /\ reqs[r].input.source = ""
        /\ reqs[r].response.status = 400
        /\ reqs[r].response.error = "Missing required field: source"

StreamPrefix == "Missing required parameters for stream upload: "

\* C24: a stream submission without the X-Source header, without a body or with
\* a body of zero bytes is answered 400 with an error that starts with
\* "Missing required parameters for stream upload: ", and no job is created.
C24_StreamRejected ==
    \A r \in Requests :
        (/\ reqs[r].kind = "stream"
         /\ \/ reqs[r].input.source = ""
            \/ ~reqs[r].input.present
            \/ reqs[r].input.body = ZeroBytes) =>
            /\ reqs[r].pc = "responded"
            /\ reqs[r].response.status = 400
            /\ reqs[r].response.error \in
                    {StreamPrefix \o "Missing required field: source",
                     StreamPrefix \o "Missing required field: body"}
            /\ reqs[r].jobId = 0

\* the variant each sample header stands for: multipart when it names
\* multipart/form-data in any letter case, else json when it names
\* application/json in any letter case, else stream
ExpectedVariant(header) ==
    IF ~header.set THEN "stream"
    ELSE IF header.value \in {"multipart/form-data; boundary=x", "MULTIPART/FORM-DATA",
                              "Multipart/Form-Data; boundary=x",
                              "application/json, multipart/form-data"}
    THEN "multipart"
    ELSE IF header.value \in {"application/json", "Application/JSON; charset=utf-8"}
    THEN "json"
    ELSE "stream"

\* C25: detectContentType yields for every Content-Type header, absent and empty
\* ones included, exactly the variant the header stands for, and the request is
\* handled by the handler of that variant.
C25_DetectTotal ==
    \A r \in Requests :
        /\ detectContentType(HeaderOrEmpty(reqs[r].header)) \in {"multipart", "json", "stream"}
        /\ reqs[r].contentType # "none" => reqs[r].contentType = ExpectedVariant(reqs[r].header)
        /\ reqs[r].kind # "none" => reqs[r].kind = ExpectedVariant(reqs[r].header)

C25_Witness ==
    \E r, s \in Requests :
        /\ reqs[r].header.value = "Application/JSON; charset=utf-8"
        /\ reqs[r].kind = "json"
        /\ ~reqs[s].header.set
        /\ reqs[s].contentType = "stream"

\* a submission whose file or stream body could not be read
ReadFailed(r) ==
    /\ reqs[r].kind \in {"multipart", "stream"}
    /\ reqs[r].input.present
    /\ reqs[r].input.source # ""
    /\ ~reqs[r].input.readable

\* C26: a submission whose file or stream cannot be read ends with an ImportError
\* of code FILE_READ_ERROR (file) or STREAM_READ_ERROR (stream) and the answer
\* 500, with nothing staged and nothing enqueued; an answer 400 never carries a
\* thrown error, and no other failure carries one of the two read codes.
C26_ReadErrorDistinct ==
    \A r \in Requests :
        /\ ReadFailed(r) =>
                /\ reqs[r].pc = "responded"
                /\ reqs[r].thrown = [name |-> "ImportError",
                                      code |-> IF reqs[r].kind = "multipart"
                                               THEN "FILE_READ_ERROR"
                                               ELSE "STREAM_READ_ERROR",
                                      origin |-> "read"]
                /\ reqs[r].response.status = 500
                /\ ~reqs[r].staged
                /\ \A i \in 1..Len(tasks) : tasks[i].payload.jobId # reqs[r].jobId
        /\ reqs[r].response.status = 400 => reqs[r].thrown = NoError
        /\ reqs[r].thrown.code \in {"FILE_READ_ERROR", "STREAM_READ_ERROR"} =>
                /\ reqs[r].kind # "none"
                /\ ReadFailed(r)

C26_Witness ==
    \E r \in Requests :
        /\ reqs[r].kind = "stream"
        /\ ReadFailed(r)
        /\ reqs[r].thrown.code = "STREAM_READ_ERROR"
        /\ reqs[r].response.status = 500

\* the rows a step has added to the table
Inserted == SubSeq(contacts', Len(contacts) + 1, Len(contacts'))

C28_FailureLogNamesJobAndSource ==
    \A i \in 1..Len(tasks) :
        tasks[i].report = "error" =>
            \E e \in logs :
                /\ e.level = "error"
                /\ e.jobId = tasks[i].payload.jobId
                /\ e.source = tasks[i].payload.source

\* C29: once addJob has returned or thrown, the handle it created is released;
\* a handle that could not be created is neither used nor released.
C29_HandleReleased ==
    \A r \in Requests :
        reqs[r].pc = "responded" =>
            /\ reqs[r].handle \in {"none", "released"}
            /\ (reqs[r].handle = "none" /\ reqs[r].jobId # 0) =>
                    \A i \in 1..Len(tasks) : tasks[i].payload.jobId # reqs[r].jobId

\* C30: the worker exits only after a runner.stop() it called has settled, and
\* whenever a runner.stop() has settled, resolved or rejected, the worker has
\* exited with code 0.
C30_ExitsZeroAfterStop ==
    /\ proc.pc = "exited" => (proc.received # {} /\ proc.exitCode = 0)
    /\ (proc.received # {} /\ proc.stopping # proc.received) =>
            (proc.pc = "exited" /\ proc.exitCode = 0)

\* C31: once a submission that has staged an artifact is answered, a task that
\* reads the artifact's key is in the queue, or the artifact is no longer in
\* storage.
C31_NoOrphanedArtifact ==
    \A r \in Requests :
        (reqs[r].staged /\ reqs[r].pc = "responded") =>
            \/ \E i \in 1..Len(tasks) : TaskFileName(tasks[i].payload) = reqs[r].stagedAt
            \/ storage[reqs[r].stagedAt] = NoObject

\* C32: every call of uploadFile settles: a submission that has entered the
\* resumable upload sooner or later has its artifact staged (the promise
\* resolved) or is answered with the error (the promise rejected).
C32_UploadSettles ==
    \A r \in Requests :
        (reqs[r].pc = "tusInit") ~> (reqs[r].pc \in {"staged", "responded"})

\* C33: whatever failure leaves ImportService.import (a failed read, a failed
\* upload on either path, a failed enqueue) leaves it as an ImportError with a code.
C33_OnlyImportErrors ==
    \A r \in Requests :
        reqs[r].thrown.origin \in {"read", "storage", "tus", "queue"} =>
            /\ reqs[r].thrown.name = "ImportError"
            /\ reqs[r].thrown.code \in {"FILE_READ_ERROR", "STREAM_READ_ERROR",
                                         "UPLOAD_FAILED", "IMPORT_FAILED"}

Rejected(r) == reqs[r].response.status = 400

\* C34: the step that answers a request with 400 changes nothing but that
\* request: storage, upload sessions, queue, table and the job id sequence stay
\* as they are; and a request answered 400 has no jobId, has staged nothing and
\* has thrown nothing.
C34_RejectionHasNoEffect ==
    /\ [](\A r \in Requests :
            Rejected(r) =>
                /\ reqs[r].pc = "responded"
                /\ reqs[r].jobId = 0
                /\ ~reqs[r].staged
                /\ reqs[r].stagedAt = NoFile
                /\ reqs[r].url = 0
                /\ reqs[r].thrown = NoError
                /\ \A i \in 1..Len(tasks) : tasks[i].payload.jobId # reqs[r].jobId)
    /\ [][\A r \in Requests :
            (Rejected(r)' /\ ~Rejected(r)) =>
                /\ storage' = storage
                /\ uploads' = uploads
                /\ tasks' = tasks
                /\ contacts' = contacts
                /\ jobSeq' = jobSeq
                /\ stages' = stages]_vars

C34_Witness ==
    \E r \in Requests :
        /\ Rejected(r)
        /\ reqs[r].kind = "stream"
        /\ reqs[r].input.source = ""
        /\ jobSeq = 0
        /\ tasks = <<>>
        /\ \A k \in DOMAIN storage : storage[k] = NoObject

====
